---- MODULE Spec2Model ----
(***************************************************************************)
(* News retrieval engine: the two non-neural searchers of searcher.py      *)
(* (bm25_search, qlm_search) together with the ranking, language-model and *)
(* metric functions they and tester.py exercise.                           *)
(*                                                                         *)
(* Every search call unpickles the processed data afresh, so a behaviour   *)
(* is: the processed data is built (Init), then one call of one operation  *)
(* runs from load to return.  Real numbers are kept as follows:            *)
(*   - probabilities are exact fractions <<numerator, denominator>>;       *)
(*   - BM25 and DCG values are fixed-point integers in units of 1/Scale,   *)
(*     with ln and log2 of small integers read from tables.                *)
(* Token ids (integers in the pickle) are written as numerals "0", "1", .. *)
(* so that both forms of a token, id and word, are strings.                *)
(***************************************************************************)
EXTENDS Integers, Sequences, FiniteSets, TLC

VARIABLES
    data,     \* what processed_data_path holds (the pickle)
    pc,       \* "ready" before the call, "returned" after it
    op,       \* the operation that ran
    args,     \* its arguments
    loaded,   \* the unpickled structures as the call leaves them
    hits,     \* bm25_search: the candidate list handed to calculate_bm25
    result    \* what the call returned: [status, value]

vars == <<data, pc, op, args, loaded, hits, result>>

(***************************** bounds **************************************)
MaxDocs == 3
MaxQueryLen == 2
MaxK == 2
MaxSmoothing == 2
MaxGains == 3
MaxGain == 2

(************************** generic helpers ********************************)
Range(s) == {s[i] : i \in DOMAIN s}

SeqsUpTo(S, n) == UNION {[1..k -> S] : k \in 0..n}

Count(s, x) == Cardinality({i \in DOMAIN s : s[i] = x})

RECURSIVE SumSeq(_)
SumSeq(s) == IF s = <<>> THEN 0 ELSE Head(s) + SumSeq(Tail(s))

Min(a, b) == IF a <= b THEN a ELSE b

\* Python's None for an optional integer: <<>> is None, <<k>> is the integer k.
None == <<>>
Some(k) == <<k>>

Ok(v) == [status |-> "ok", value |-> v]
Raised(e) == [status |-> "error", value |-> e]

\* seq[:topk + 1]: a limit that keeps one entry too many.
SliceOneMore(s, topk) ==
    IF topk = None THEN s
    ELSE SubSeq(s, 1, Min(topk[1] + 1, Len(s)))

\* Python's seq[:topk]: None keeps everything, k >= 0 keeps the first
\* min(k, len) entries, k < 0 drops the last |k| entries.
Slice(s, topk) ==
    IF topk = None THEN s
    ELSE LET k == topk[1]
             n == IF k >= 0 THEN Min(k, Len(s))
                  ELSE IF Len(s) + k > 0 THEN Len(s) + k ELSE 0
         IN  SubSeq(s, 1, n)

(****************************** Counter ************************************)
\* collections.Counter: word -> positive count; a missing word counts 0.
Counter(s) == [w \in Range(s) |-> Count(s, w)]

CounterGet(c, w) == IF w \in DOMAIN c THEN c[w] ELSE 0

CounterAdd(c1, c2) ==
    [w \in DOMAIN c1 \cup DOMAIN c2 |-> CounterGet(c1, w) + CounterGet(c2, w)]

CounterTotal(c) ==
    LET RECURSIVE Sum(_)
        Sum(S) == IF S = {} THEN 0
                  ELSE LET w == CHOOSE w \in S : TRUE IN c[w] + Sum(S \ {w})
    IN  Sum(DOMAIN c)

(***************************** vocabulary **********************************)
UNK == "<unk>"

\* The vocabulary: itos[i + 1] is the word of id i; id 0 is the unknown word.
Vocab == [itos |-> <<UNK, "a", "b">>]

Numeral(i) == <<"0", "1", "2", "3">>[i + 1]

InVocab(vocab, w) == \E i \in DOMAIN vocab.itos : vocab.itos[i] = w

\* vocab.stoi[w]: the id of w, the unknown word's id for a word not in it.
stoi(vocab, w) ==
    IF InVocab(vocab, w)
    THEN (CHOOSE i \in DOMAIN vocab.itos : vocab.itos[i] = w) - 1
    ELSE 0

\* The stored form of a token sequence: each word by its id.
convert_stoi(words, vocab) ==
    [i \in DOMAIN words |-> Numeral(stoi(vocab, words[i]))]

\* util.convert_itos(tokens, vocab): the sequence with each id replaced by its
\* word. Whether the argument list itself is rewritten is ConvertModes.
itos_of(vocab, tok) ==
    vocab.itos[(CHOOSE i \in 0..(Len(vocab.itos) - 1) : Numeral(i) = tok) + 1]

convert_itos(tokens, vocab) ==
    [i \in DOMAIN tokens |-> itos_of(vocab, tokens[i])]

\* util.replace_unknown_words(words, vocab)
replace_unknown_words(words, vocab) ==
    [i \in DOMAIN words |-> IF InVocab(vocab, words[i]) THEN words[i] ELSE UNK]

(************************* fractions and tables ****************************)
\* A probability is an exact fraction <<numerator, denominator>>.
FracMul(p, q) == <<p[1] * q[1], p[2] * q[2]>>

\* alpha * p + (1 - alpha) * q
FracMix(alpha, p, q) ==
    <<alpha[1] * p[1] * q[2] + (alpha[2] - alpha[1]) * q[1] * p[2],
      alpha[2] * p[2] * q[2]>>

\* a/b >= c/d for a, c >= 0 and b, d > 0, by Euclid's algorithm on the two
\* fractions (whole parts first, then the reciprocals of the remainders), so
\* that no product of a numerator and a denominator is ever formed.
RECURSIVE FracGeqParts(_, _, _, _)
FracGeqParts(a, b, c, d) ==
    LET q1 == a \div b
        q2 == c \div d
        r1 == a % b
        r2 == c % d
    IN  IF q1 # q2 THEN q1 > q2
        ELSE IF r2 = 0 THEN TRUE
        ELSE IF r1 = 0 THEN FALSE
        ELSE FracGeqParts(d, r2, b, r1)

FracGeq(p, q) == FracGeqParts(p[1], p[2], q[1], q[2])

FracEq(p, q) == FracGeq(p, q) /\ FracGeq(q, p)

\* Python's sorted(items, key=..., reverse=True), keys[i] being the key of
\* items[i] as a fraction: stable, so an item goes after every item already
\* placed whose key is >= its own.
SortedReverse(items, keys) ==
    LET f[i \in 0..Len(items)] ==
            IF i = 0 THEN <<>>
            ELSE LET placed == f[i - 1]
                     p == Cardinality({j \in DOMAIN placed : FracGeq(keys[placed[j]], keys[i])})
                 IN  SubSeq(placed, 1, p) \o <<i>> \o SubSeq(placed, p + 1, Len(placed))
        order == f[Len(items)]
    IN  [n \in DOMAIN order |-> items[order[n]]]

\* Fixed point: a real x is the integer nearest to x * Scale.
Scale == 10 ^ 6

\* ln(n) * Scale for n = 1..6.
LnTable == <<0, 693147, 1098612, 1386294, 1609438, 1791759>>

\* Scale / log2(n) for n = 2..12 (the entry for n = 1 is not used).
InvLog2Table == <<0, 1000000, 630930, 500000, 430677, 386853, 356207, 333333,
                  315465, 301030, 289065, 278943>>

(***************************** process_docs ********************************)
\* doctypes.TokenizedDocument(id, title, content)
TokenizedDocument(id, title, content) ==
    [id |-> id, title |-> title, content |-> content]

\* The id of a collection model (Python's None): no document has it.
NoneId == -1

\* doctypes.LanguageModel(id, counter, total, smoothing)
LanguageModel(id, counter, total, smoothing) ==
    [id |-> id, counter |-> counter, total |-> total, smoothing |-> smoothing]

DocWords(doc) == doc.title \o doc.content

\* The ids of a set, ascending.
RECURSIVE Ascending(_)
Ascending(S) ==
    IF S = {} THEN <<>>
    ELSE LET m == CHOOSE m \in S : \A x \in S : m <= x
         IN  <<m>> \o Ascending(S \ {m})

\* process_docs.create_inverted_index(docs, vocab): word -> the ids of the
\* documents holding it in title or body, ascending, without duplicates.
create_inverted_index(docs, vocab) ==
    [w \in UNION {Range(DocWords(docs[i])) : i \in DOMAIN docs} |->
        Ascending({docs[i].id : i \in {j \in DOMAIN docs : w \in Range(DocWords(docs[j]))}})]

\* The models with the plain token count as total.
create_language_models_unsmoothed(docs, vocab, smoothing) ==
    [i \in DOMAIN docs |->
        LanguageModel(docs[i].id, Counter(DocWords(docs[i])),
                      Len(DocWords(docs[i])), smoothing)]

\* process_docs.create_language_models(docs, vocab, smoothing): one model per
\* document; every vocabulary word gets `smoothing` pseudo-counts, which are
\* part of the model's total but not of its counter.
create_language_models(docs, vocab, smoothing) ==
    [i \in DOMAIN docs |->
        LanguageModel(docs[i].id,
                      Counter(DocWords(docs[i])),
                      Len(DocWords(docs[i])) + Len(vocab.itos) * smoothing,
                      smoothing)]

\* process_docs.create_collection_model(language_models): the models summed
\* field by field.
create_collection_model(language_models) ==
    LET f[i \in 0..Len(language_models)] ==
            IF i = 0 THEN LanguageModel(NoneId, [w \in {} |-> 0], 0, 0)
            ELSE LanguageModel(NoneId,
                               CounterAdd(f[i - 1].counter, language_models[i].counter),
                               f[i - 1].total + language_models[i].total,
                               f[i - 1].smoothing + language_models[i].smoothing)
    IN  f[Len(language_models)]

(******************************* ranker ************************************)
\* calculate_bm25's parameters k1 = 1.2 and b = 0.75, as fractions.
K1Num == 6
K1Den == 5
BNum == 3
BDen == 4

\* ranker.calculate_tf(doc): the counts of the words of title + content.
calculate_tf(doc) == Counter(DocWords(doc))

\* ranker.calculate_df(docs): word -> the number of documents holding it.
calculate_df(docs) ==
    [w \in UNION {Range(DocWords(docs[i])) : i \in DOMAIN docs} |->
        Cardinality({i \in DOMAIN docs : w \in Range(DocWords(docs[i]))})]

\* ranker.calculate_idf(df, n): word -> ln(n / df[word]).
calculate_idf(df, n) == [w \in DOMAIN df |-> LnTable[n] - LnTable[df[w]]]

\* The idf of a word; 0 for a word no candidate holds.
IdfGet(idf, w) == IF w \in DOMAIN idf THEN idf[w] ELSE 0

\* One query word's share of a document's BM25 score:
\*   idf * tf * (k1 + 1) / (tf + k1 * (1 - b + b * len / avgdl))
\* with avgdl = totalLen / n, all over one denominator.
Bm25Term(idf, tf, len, totalLen, n) ==
    IF tf = 0 THEN 0
    ELSE (idf * (tf * (K1Num + K1Den) * BDen * totalLen))
         \div (tf * K1Den * BDen * totalLen
               + K1Num * ((BDen - BNum) * totalLen + BNum * len * n))

Bm25Score(query, doc, idf, totalLen, n) ==
    LET tf == calculate_tf(doc)
        f[i \in 0..Len(query)] ==
            IF i = 0 THEN 0
            ELSE f[i - 1] + Bm25Term(IdfGet(idf, query[i]), CounterGet(tf, query[i]),
                                     Len(DocWords(doc)), totalLen, n)
    IN  f[Len(query)]

\* calculate_bm25 without its sort: the pairs in candidate order.
calculate_bm25_unsorted(query, docs) ==
    LET n == Len(docs)
        idf == calculate_idf(calculate_df(docs), n)
        totalLen == SumSeq([i \in DOMAIN docs |-> Len(DocWords(docs[i]))])
    IN  [i \in DOMAIN docs |->
            <<docs[i].id, Bm25Score(query, docs[i], idf, totalLen, n)>>]

\* ranker.calculate_bm25(query, docs, k1, b): the (id, score) pairs of the
\* candidates, best score first, equal scores in candidate order.
calculate_bm25(query, docs) ==
    LET n == Len(docs)
        idf == calculate_idf(calculate_df(docs), n)
        totalLen == SumSeq([i \in DOMAIN docs |-> Len(DocWords(docs[i]))])
        scores == [i \in DOMAIN docs |->
                      <<docs[i].id, Bm25Score(query, docs[i], idf, totalLen, n)>>]
    IN  SortedReverse(scores, [i \in DOMAIN scores |-> <<scores[i][2], 1>>])

\* The maximum-likelihood ratio, without the smoothing pseudo-counts.
calculate_word_probability_unsmoothed(model, word) ==
    <<CounterGet(model.counter, word), model.total>>

\* ranker.calculate_word_probability(model, word, normalize=False)
calculate_word_probability(model, word) ==
    <<CounterGet(model.counter, word) + model.smoothing, model.total>>

\* ranker.calculate_sentence_probability(model, tokens, normalize=False)
calculate_sentence_probability(model, tokens) ==
    LET f[i \in 0..Len(tokens)] ==
            IF i = 0 THEN <<1, 1>>
            ELSE FracMul(f[i - 1], calculate_word_probability(model, tokens[i]))
    IN  f[Len(tokens)]

\* ranker.calculate_interpolated_sentence_probability(model, collection_model,
\*     tokens, alpha, normalize=False)
calculate_interpolated_sentence_probability(model, collection_model, tokens, alpha) ==
    LET f[i \in 0..Len(tokens)] ==
            IF i = 0 THEN <<1, 1>>
            ELSE FracMul(f[i - 1],
                         FracMix(alpha,
                                 calculate_word_probability(model, tokens[i]),
                                 calculate_word_probability(collection_model, tokens[i])))
    IN  f[Len(tokens)]

\* The textbook discount: position i weighs 1 / log2(i + 1).
DcgWeightLog2OfIPlus1(i) == InvLog2Table[i + 1]

\* The weight of 1-indexed position i in ranker.calculate_dcg_at_k:
\* positions 1 and 2 weigh 1, position i >= 3 weighs 1 / log2(i).
DcgWeight(i) == IF i = 1 THEN Scale ELSE InvLog2Table[i]

\* ranker.calculate_dcg_at_k(r, k): r[0] + sum(r[1:k] / log2(2 .. k)) over the
\* first k gains (all of them when k exceeds their number); 0 for none.
calculate_dcg_at_k(r, k) ==
    LET n == Min(k, Len(r))
        f[i \in 0..n] == IF i = 0 THEN 0 ELSE f[i - 1] + r[i] * DcgWeight(i)
    IN  f[n]

\* ranker.calculate_ndcg_at_k(r, k): the DCG over the DCG of the gains sorted
\* best first, as a fraction; 0 when that ideal DCG is 0.
calculate_ndcg_at_k(r, k) ==
    LET dcg_max == calculate_dcg_at_k(SortedReverse(r, [i \in DOMAIN r |-> <<r[i], 1>>]), k)
    IN  IF dcg_max = 0 THEN <<0, 1>> ELSE <<calculate_dcg_at_k(r, k), dcg_max>>

(**************************** Python containers ****************************)
\* CPython's set of small non-negative integers (hash(i) = i): a table of
\* SetMask + 1 slots, a colliding key re-probed at (5 * i + 1 + perturb) with
\* perturb shifted right by 5 bits each time.  The table is not resized below
\* five keys.  Iterating the set walks the slots in order.
SetMask == 7
EmptySlot == -1

RECURSIVE SetProbe(_, _, _)
SetProbe(table, i, perturb) ==
    IF table[i] = EmptySlot THEN i
    ELSE SetProbe(table, (i * 5 + 1 + perturb \div 32) % (SetMask + 1), perturb \div 32)

SetAdd(table, key) ==
    IF \E i \in DOMAIN table : table[i] = key THEN table
    ELSE [table EXCEPT ![SetProbe(table, key % (SetMask + 1), key)] = key]

\* list(set(keys)): the keys, added in sequence order, as the set iterates them.
SetIterate(keys) ==
    LET f[i \in 0..Len(keys)] ==
            IF i = 0 THEN [j \in 0..SetMask |-> EmptySlot]
            ELSE SetAdd(f[i - 1], keys[i])
        table == f[Len(keys)]
        g[j \in 0..(SetMask + 1)] ==
            IF j = 0 THEN <<>>
            ELSE IF table[j - 1] = EmptySlot THEN g[j - 1]
            ELSE Append(g[j - 1], table[j - 1])
    IN  g[SetMask + 1]

\* list({k: v for (k, v) in pairs}.items()): a key keeps the place of its
\* first pair and the value of its last.
DictItems(pairs) ==
    LET firsts == {i \in DOMAIN pairs : \A j \in 1..(i - 1) : pairs[j][1] # pairs[i][1]}
        last(k) == CHOOSE i \in DOMAIN pairs :
                      /\ pairs[i][1] = k
                      /\ \A j \in (i + 1)..Len(pairs) : pairs[j][1] # k
        f[i \in 0..Len(pairs)] ==
            IF i = 0 THEN <<>>
            ELSE IF i \in firsts
                 THEN Append(f[i - 1], <<pairs[i][1], pairs[last(pairs[i][1])][2]>>)
                 ELSE f[i - 1]
    IN  f[Len(pairs)]

DictGet(items, k) == (CHOOSE i \in DOMAIN items : items[i][1] = k)

(******************************* searcher **********************************)
\* inverted_index[word], a plain subscript. For a word without an entry a
\* dict raises KeyError and a defaultdict(list) answers with a new empty list.
Lookup(inverted_index, word) ==
    IF word \in DOMAIN inverted_index.items THEN Ok(inverted_index.items[word])
    ELSE IF inverted_index.type = "defaultdict" THEN Ok(<<>>)
    ELSE Raised("KeyError")

\* The index after inverted_index[word]: a defaultdict(list) keeps the empty
\* list it made for a word without an entry; nothing else changes.
IndexAfterLookup(inverted_index, word) ==
    IF word \notin DOMAIN inverted_index.items /\ inverted_index.type = "defaultdict"
    THEN [inverted_index EXCEPT !.items =
             [w \in DOMAIN inverted_index.items \cup {word} |->
                 IF w = word THEN <<>> ELSE inverted_index.items[w]]]
    ELSE inverted_index

\* What a call of util.convert_itos whose result is discarded can leave
\* behind: the argument list rewritten in place, or the argument untouched and
\* the converted sequence in a new list that is dropped.
ConvertModes == {"in_place", "new_list"}

\* The documents with their tokens as words.
WordDocs(docs, vocab) ==
    [i \in DOMAIN docs |->
        TokenizedDocument(docs[i].id,
                          convert_itos(docs[i].title, vocab),
                          convert_itos(docs[i].content, vocab))]

\* The documents of the pickle after bm25_search's loop over data['docs'],
\* which calls convert_itos on every title and content and drops the results.
ConvertDocs(docs, vocab, mode) ==
    IF mode = "in_place" THEN WordDocs(docs, vocab) ELSE docs

\* for word in query for doc_id in inverted_index[word]: the ids in the order
\* the generator yields them.
\* The generator stops at the first subscript that raises.
LookupAll(query, inverted_index) ==
    LET f[i \in 0..Len(query)] ==
            IF i = 0 THEN [status |-> "ok", ids |-> <<>>, index |-> inverted_index]
            ELSE IF f[i - 1].status = "error" THEN f[i - 1]
            ELSE LET r == Lookup(f[i - 1].index, query[i])
                 IN  IF r.status = "error"
                     THEN [f[i - 1] EXCEPT !.status = "error"]
                     ELSE [status |-> "ok",
                           ids |-> f[i - 1].ids \o r.value,
                           index |-> IndexAfterLookup(f[i - 1].index, query[i])]
    IN  f[Len(query)]

PostingsOf(query, inverted_index) == LookupAll(query, inverted_index).ids

LookupRaises(query, inverted_index) == LookupAll(query, inverted_index).status = "error"

\* The loaded index once the generator is exhausted.
IndexAfter(query, inverted_index) == LookupAll(query, inverted_index).index

\* doc_ids = set(...); hits = [docs_map[doc_id] for doc_id in doc_ids]
bm25_hits(query, docs, inverted_index) ==
    LET docs_map == DictItems([i \in DOMAIN docs |-> <<docs[i].id, docs[i]>>])
        doc_ids == SetIterate(PostingsOf(query, inverted_index))
    IN  [i \in DOMAIN doc_ids |-> docs_map[DictGet(docs_map, doc_ids[i])][2]]

\* if not hits: return []; return calculate_bm25(query, hits)[:topk]
bm25_return(query, candidates, topk) ==
    IF candidates = <<>> THEN Ok(<<>>)
    ELSE Ok(Slice(calculate_bm25(query, candidates), topk))

\* qlm_search's ranking with sorted(...)[::-1] in place of reverse=True: equal
\* scores come out in reverse iteration order.
qlm_rank_ties_reversed(query, language_models, collection_model, alpha) ==
    LET models_map == DictItems([i \in DOMAIN language_models |->
                                    <<language_models[i].id, language_models[i]>>])
        n == Len(models_map)
        scores == [i \in DOMAIN models_map |->
                      <<models_map[n + 1 - i][1],
                        calculate_interpolated_sentence_probability(
                            models_map[n + 1 - i][2], collection_model, query, alpha)>>]
    IN  SortedReverse(scores, [i \in DOMAIN scores |-> scores[i][2]])

\* qlm_search's ranking: one score per key of models_map, best first.
qlm_rank(query, language_models, collection_model, alpha) ==
    LET models_map == DictItems([i \in DOMAIN language_models |->
                                    <<language_models[i].id, language_models[i]>>])
        scores == [i \in DOMAIN models_map |->
                      <<models_map[i][1],
                        calculate_interpolated_sentence_probability(
                            models_map[i][2], collection_model, query, alpha)>>]
    IN  SortedReverse(scores, [i \in DOMAIN scores |-> scores[i][2]])

qlm_return(rank, topk) == Ok(Slice(rank, topk))

(************************* the processed data ******************************)
\* The documents a collection is drawn from: a one-word title and a body of
\* at most one word, unknown words already replaced.
DocShapes ==
    { [title |-> <<"a">>, content |-> <<>>],
      [title |-> <<"a">>, content |-> <<"a">>],
      [title |-> <<"b">>, content |-> <<UNK>>] }

\* Document ids, by position in the collection: arbitrary integers, not in
\* ascending order, some of them colliding in a small hash table.
IdPools == { <<9, 1, 8, 2>> }

\* The smoothing the stored language models are built with.
DefaultSmoothing == 1

Collection(ids, shapes) ==
    [i \in DOMAIN shapes |-> TokenizedDocument(ids[i], shapes[i].title, shapes[i].content)]

\* The mapping types data['inverted_index'] can be unpickled as: the index is
\* only ever subscripted, and a dict and a defaultdict(list) of the same items
\* are equal.
IndexTypes == {"dict", "defaultdict"}

InvertedIndex(type, items) == [type |-> type, items |-> items]

\* What process_docs pickles for a collection: the documents with their words
\* as ids, the vocabulary, the index and the language models.
ProcessedData(docs, index_type) ==
    LET models == create_language_models(docs, Vocab, DefaultSmoothing)
    IN  [ docs |-> [i \in DOMAIN docs |->
                       TokenizedDocument(docs[i].id,
                                         convert_stoi(docs[i].title, Vocab),
                                         convert_stoi(docs[i].content, Vocab))],
          vocab |-> Vocab,
          inverted_index |-> InvertedIndex(index_type, create_inverted_index(docs, Vocab)),
          language_models |-> models,
          collection_model |-> create_collection_model(models) ]

\* Data for the operations that read no processed data.
NoData == [ docs |-> <<>>, vocab |-> Vocab,
            inverted_index |-> InvertedIndex("dict", [w \in {} |-> <<>>]),
            language_models |-> <<>>,
            collection_model |-> create_collection_model(<<>>) ]

(****************************** inputs *************************************)
\* A query as clean_words returns it; "z" is a word the vocabulary lacks.
QueryWords == {"a", "b", "z"}
Queries == SeqsUpTo(QueryWords, MaxQueryLen)

TopKs == {None} \cup {Some(k) : k \in (-1)..MaxK}

\* qlm_search's default alpha = 0.75, as a fraction.
AlphaNum == 3
AlphaDen == 4
Alphas == {<<AlphaNum, AlphaDen>>}

GainSeqs == SeqsUpTo(0..MaxGain, MaxGains)

(******************************* actions ***********************************)
Call(name, a, mem, cands, res) ==
    /\ pc' = "returned"
    /\ op' = name
    /\ args' = a
    /\ loaded' = mem
    /\ hits' = cands
    /\ result' = res
    /\ UNCHANGED data

\* searcher.bm25_search(query, processed_data_path, topk)
bm25_search ==
    /\ pc = "ready"
    /\ \E words \in Queries, mode \in ConvertModes :
        LET query == replace_unknown_words(words, data.vocab)
            mem == [data EXCEPT !.docs = ConvertDocs(data.docs, data.vocab, mode),
                                !.inverted_index = IndexAfter(query, data.inverted_index)]
        IN  IF LookupRaises(query, data.inverted_index)
            THEN \E topk \in TopKs :
                    Call("bm25_search", [query |-> words, topk |-> topk], mem, <<>>,
                         Raised("KeyError"))
            ELSE LET cands == bm25_hits(query, mem.docs, data.inverted_index)
                 IN  \E topk \in TopKs :
                        Call("bm25_search", [query |-> words, topk |-> topk], mem, cands,
                             bm25_return(query, cands, topk))

\* searcher.qlm_search(query, processed_data_path, topk, alpha, normalize=False)
qlm_search ==
    /\ pc = "ready"
    /\ \E words \in Queries, alpha \in Alphas :
        LET query == replace_unknown_words(words, data.vocab)
            rank == qlm_rank(query, data.language_models, data.collection_model, alpha)
        IN  \E topk \in TopKs :
                Call("qlm_search", [query |-> words, topk |-> topk, alpha |-> alpha],
                     data, <<>>, qlm_return(rank, topk))

\* process_docs.create_language_models(docs, vocab, smoothing)
CreateLanguageModels ==
    /\ pc = "ready"
    /\ \E smoothing \in 1..MaxSmoothing :
        LET docs == WordDocs(data.docs, data.vocab)
        IN  Call("create_language_models", [docs |-> docs, smoothing |-> smoothing],
                 data, <<>>, Ok(create_language_models(docs, data.vocab, smoothing)))

\* process_docs.create_collection_model(language_models)
CreateCollectionModel ==
    /\ pc = "ready"
    /\ \E smoothing \in 1..MaxSmoothing :
        LET models == create_language_models(WordDocs(data.docs, data.vocab),
                                             data.vocab, smoothing)
        IN  Call("create_collection_model", [language_models |-> models],
                 data, <<>>, Ok(create_collection_model(models)))

\* ranker.calculate_word_probability(model, word, False)
CalculateWordProbability ==
    /\ pc = "ready"
    /\ \E i \in 0..Len(data.language_models), word \in QueryWords \cup {UNK} :
        LET model == IF i = 0 THEN data.collection_model ELSE data.language_models[i]
        IN  Call("calculate_word_probability", [model |-> model, word |-> word],
                 data, <<>>, Ok(calculate_word_probability(model, word)))

\* ranker.calculate_sentence_probability(model, tokens, False)
CalculateSentenceProbability ==
    /\ pc = "ready"
    /\ \E i \in 0..Len(data.language_models), tokens \in Queries :
        LET model == IF i = 0 THEN data.collection_model ELSE data.language_models[i]
        IN  Call("calculate_sentence_probability", [model |-> model, tokens |-> tokens],
                 data, <<>>, Ok(calculate_sentence_probability(model, tokens)))

\* ranker.calculate_dcg_at_k(r, k)
CalculateDcgAtK ==
    /\ pc = "ready"
    /\ \E r \in GainSeqs, k \in 0..(MaxGains + 1) :
        Call("calculate_dcg_at_k", [r |-> r, k |-> k], data, <<>>,
             Ok(calculate_dcg_at_k(r, k)))

\* ranker.calculate_ndcg_at_k(r, k)
CalculateNdcgAtK ==
    /\ pc = "ready"
    /\ \E r \in GainSeqs, k \in 0..(MaxGains + 1) :
        Call("calculate_ndcg_at_k", [r |-> r, k |-> k], data, <<>>,
             Ok(calculate_ndcg_at_k(r, k)))

(**************************** specifications *******************************)
Ready(d) ==
    /\ data = d
    /\ pc = "ready"
    /\ op = "none"
    /\ args = <<>>
    /\ loaded = d
    /\ hits = <<>>
    /\ result = Ok(<<>>)

\* A processed collection, ready for one call.
Init ==
    \E n \in 1..MaxDocs :
        \E shapes \in [1..n -> DocShapes], ids \in IdPools, index_type \in IndexTypes :
            Ready(ProcessedData(Collection(ids, shapes), index_type))

\* The searchers.
Next ==
    \/ bm25_search
    \/ qlm_search

Spec == Init /\ [][Next]_vars

\* The language-model functions.
NextModels ==
    \/ CreateLanguageModels
    \/ CreateCollectionModel
    \/ CalculateWordProbability
    \/ CalculateSentenceProbability

SpecModels == Init /\ [][NextModels]_vars

\* The ranking metrics, which read no processed data.
InitMetrics == Ready(NoData)

NextMetrics ==
    \/ CalculateDcgAtK
    \/ CalculateNdcgAtK

SpecMetrics == InitMetrics /\ [][NextMetrics]_vars

(******************************* claims ************************************)
IsSearch == pc = "returned" /\ op \in {"bm25_search", "qlm_search"}
IsBm25 == pc = "returned" /\ op = "bm25_search"
IsQlm == pc = "returned" /\ op = "qlm_search"

\* The query the rankers see: the call's words after unknown-word replacement.
RankedQuery == replace_unknown_words(args.query, data.vocab)

\* A ranked list read as fractions: BM25 scores are integers over 1.
Bm25Keys(rank) == [i \in DOMAIN rank |-> <<rank[i][2], 1>>]
QlmKeys(rank) == [i \in DOMAIN rank |-> rank[i][2]]

NonIncreasing(keys) ==
    \A i, j \in DOMAIN keys : i < j => FracGeq(keys[i], keys[j])

\* Entries of equal key stand in the order their ids have in `ids`.
TiesKeepOrder(rank, keys, ids) ==
    \A i, j \in DOMAIN rank :
        (i < j /\ FracEq(keys[i], keys[j])) =>
            \E a, b \in DOMAIN ids : a < b /\ ids[a] = rank[i][1] /\ ids[b] = rank[j][1]

HasTie(keys) == \E i, j \in DOMAIN keys : i < j /\ FracEq(keys[i], keys[j])
HasDrop(keys) == \E i, j \in DOMAIN keys : i < j /\ ~FracGeq(keys[j], keys[i])

HitIds == [i \in DOMAIN hits |-> hits[i].id]
ModelIds == [i \in DOMAIN data.language_models |-> data.language_models[i].id]

\* C1: the list bm25_search returns from calculate_bm25 is non-increasing in
\* score, and candidates of equal score keep the order they had in the
\* candidate list handed to calculate_bm25; with topk = None it ranks every
\* candidate exactly once.
C1_Bm25SortedStable ==
    (IsBm25 /\ result.status = "ok") =>
        /\ NonIncreasing(Bm25Keys(result.value))
        /\ TiesKeepOrder(result.value, Bm25Keys(result.value), HitIds)
        /\ (args.topk = None =>
               /\ Len(result.value) = Len(hits)
               /\ {result.value[i][1] : i \in DOMAIN result.value} = Range(HitIds))

\* C1 witness: a ranking of three candidates with a tie and a drop in score
\* whose best candidate was not the first one handed in.
C1_Witness ==
    /\ IsBm25
    /\ result.status = "ok"
    /\ args.topk = None
    /\ Len(result.value) >= 3
    /\ HasTie(Bm25Keys(result.value))
    /\ HasDrop(Bm25Keys(result.value))
    /\ result.value[1][1] # hits[1].id

\* C2: qlm_search with topk = None returns exactly one pair for every
\* language model id of the loaded data, non-increasing in score, models of
\* equal score in the order the models are iterated.
C2_QlmRanksEveryModel ==
    (IsQlm /\ args.topk = None) =>
        /\ result.status = "ok"
        /\ {result.value[i][1] : i \in DOMAIN result.value} = Range(ModelIds)
        /\ Len(result.value) = Cardinality(Range(ModelIds))
        /\ NonIncreasing(QlmKeys(result.value))
        /\ TiesKeepOrder(result.value, QlmKeys(result.value), ModelIds)

\* C2 witness: three models ranked, with a tie and a drop in score, the best
\* model not being the first one iterated.
C2_Witness ==
    /\ IsQlm
    /\ args.topk = None
    /\ Len(result.value) >= 3
    /\ HasTie(QlmKeys(result.value))
    /\ HasDrop(QlmKeys(result.value))
    /\ result.value[1][1] # ModelIds[1]

\* The full ranked list R of the call that ran.
FullRank ==
    IF op = "bm25_search"
    THEN IF hits = <<>> THEN <<>> ELSE calculate_bm25(RankedQuery, hits)
    ELSE qlm_rank(RankedQuery, data.language_models, data.collection_model, args.alpha)

\* bm25_search raised at the index subscript, before there was a list to rank.
RaisedAtLookup == IsBm25 /\ LookupRaises(RankedQuery, data.inverted_index)

\* C3: with R the full ranked list, topk = None returns R and topk = k >= 0
\* returns exactly the first min(k, |R|) entries of R, in R's order (of every
\* call that got as far as ranking).
C3_TopkIsPrefix ==
    (IsSearch /\ ~RaisedAtLookup /\ (args.topk = None \/ args.topk[1] >= 0)) =>
        LET R == FullRank
        IN  /\ result.status = "ok"
            /\ IF args.topk = None THEN result.value = R
               ELSE /\ Len(result.value) = Min(args.topk[1], Len(R))
                    /\ \A i \in DOMAIN result.value : result.value[i] = R[i]

\* C3 witness: a call whose limit cuts a longer ranking short.
C3_Witness ==
    /\ IsSearch
    /\ result.status = "ok"
    /\ args.topk # None
    /\ args.topk[1] >= 1
    /\ args.topk[1] < Len(FullRank)
    /\ Len(result.value) = args.topk[1]

\* The words of the ranked query the inverted index has an entry for.
IndexedWords == {w \in Range(RankedQuery) : w \in DOMAIN data.inverted_index.items}

\* C4: a query token without an entry in the inverted index has an empty
\* postings list: the call raises nothing, the candidates are exactly the
\* documents posted under the tokens that do have an entry, and the result
\* is the empty list when no token has a posting.
C4_MissingTokenIsEmptyPostings ==
    IsBm25 =>
        /\ result.status = "ok"
        /\ Range(HitIds) = UNION {Range(data.inverted_index.items[w]) : w \in IndexedWords}
        /\ (IndexedWords = {} => result.value = <<>>)

NegativeTopk == args.topk # None /\ args.topk[1] < 0

\* C5: a negative topk is rejected with an error; a call with something to
\* rank never answers it with a ranking.
C5_NegativeTopkRejected ==
    (IsSearch /\ NegativeTopk /\ FullRank # <<>>) => result.status = "error"

\* C10: bm25_search hands the candidates to calculate_bm25 in ascending
\* order of document id.
C10_CandidatesAscendingById ==
    IsBm25 => \A i, j \in DOMAIN hits : i < j => hits[i].id < hits[j].id

IsOp(name) == pc = "returned" /\ op = name

\* The product of (count of tokens[i] in the model + extra) over the tokens.
RECURSIVE CountProduct(_, _, _)
CountProduct(model, tokens, extra) ==
    IF tokens = <<>> THEN 1
    ELSE (CounterGet(model.counter, Head(tokens)) + extra)
         * CountProduct(model, Tail(tokens), extra)

\* C6 as stated: the word probability is count / total (0 for a word the
\* model never saw) and the sentence probability the product of these.
C6_ProbabilityIsCountOverTotal ==
    /\ IsOp("calculate_word_probability") =>
          FracEq(result.value, <<CounterGet(args.model.counter, args.word), args.model.total>>)
    /\ IsOp("calculate_sentence_probability") =>
          FracEq(result.value, <<CountProduct(args.model, args.tokens, 0),
                                 args.model.total ^ Len(args.tokens)>>)

\* C6 amended: the word probability is (count + the model's smoothing) /
\* total, so a word the model never saw gets smoothing / total, which is not
\* 0 when the smoothing is positive; the sentence probability is the product
\* of these ratios.
C6_ProbabilityIsSmoothed ==
    /\ IsOp("calculate_word_probability") =>
          /\ FracEq(result.value, <<CounterGet(args.model.counter, args.word)
                                      + args.model.smoothing, args.model.total>>)
          /\ (CounterGet(args.model.counter, args.word) = 0 =>
                 /\ FracEq(result.value, <<args.model.smoothing, args.model.total>>)
                 /\ (args.model.smoothing > 0 => ~FracEq(result.value, <<0, 1>>)))
    /\ IsOp("calculate_sentence_probability") =>
          FracEq(result.value, <<CountProduct(args.model, args.tokens, args.model.smoothing),
                                 args.model.total ^ Len(args.tokens)>>)

\* C6 witness: the probability of a two-token sentence one of whose tokens
\* the model never saw.
C6_Witness ==
    /\ IsOp("calculate_sentence_probability")
    /\ Len(args.tokens) = 2
    /\ CounterGet(args.model.counter, args.tokens[1]) > 0
    /\ CounterGet(args.model.counter, args.tokens[2]) = 0
    /\ result.value[1] > 0

\* The counters of a list of models, summed word by word.
RECURSIVE CounterSum(_)
CounterSum(models) ==
    IF models = <<>> THEN [w \in {} |-> 0]
    ELSE CounterAdd(Head(models).counter, CounterSum(Tail(models)))

\* C7 as stated: a model's total is the sum of the counts of its counter; a
\* collection model's counter is the sum of its constituents' counters and
\* its last field the number of constituents.
C7_TotalIsSumOfCounts ==
    /\ IsOp("create_language_models") =>
          \A i \in DOMAIN result.value :
              result.value[i].total = CounterTotal(result.value[i].counter)
    /\ IsOp("create_collection_model") =>
          /\ result.value.total = CounterTotal(result.value.counter)
          /\ result.value.counter = CounterSum(args.language_models)
          /\ result.value.smoothing = Len(args.language_models)

\* C7 amended: a per-document model's total is the sum of its counts plus
\* smoothing times the vocabulary size, and its last field is the smoothing;
\* a collection model's counter is the sum of its constituents' counters,
\* its total the sum of their totals, and its last field is the number of
\* constituents when each of them was built with smoothing 1.
C7_TotalIncludesSmoothing ==
    /\ IsOp("create_language_models") =>
          /\ Len(result.value) = Len(args.docs)
          /\ \A i \in DOMAIN result.value :
                /\ result.value[i].id = args.docs[i].id
                /\ result.value[i].counter = Counter(DocWords(args.docs[i]))
                /\ result.value[i].smoothing = args.smoothing
                /\ result.value[i].total =
                       CounterTotal(result.value[i].counter)
                       + args.smoothing * Len(data.vocab.itos)
    /\ IsOp("create_collection_model") =>
          /\ result.value.counter = CounterSum(args.language_models)
          /\ result.value.total =
                 SumSeq([i \in DOMAIN args.language_models |-> args.language_models[i].total])
          /\ ((\A i \in DOMAIN args.language_models : args.language_models[i].smoothing = 1)
                 => result.value.smoothing = Len(args.language_models))

\* C7 witness: a collection model built from two or more models of smoothing
\* 1 that share a word.
C7_Witness ==
    /\ IsOp("create_collection_model")
    /\ Len(args.language_models) >= 2
    /\ \A i \in DOMAIN args.language_models : args.language_models[i].smoothing = 1
    /\ \E w \in DOMAIN result.value.counter : result.value.counter[w] >= 2
    /\ result.value.total > CounterTotal(result.value.counter)

\* The sum of r[i] * weight[i + shift] over the first min(k, |r|) positions.
WeightedGain(r, k, weights, shift) ==
    LET n == Min(k, Len(r))
        RECURSIVE Sum(_)
        Sum(i) == IF i > n THEN 0 ELSE r[i] * weights[i + shift] + Sum(i + 1)
    IN  Sum(1)

\* Position 1 weighs 1 = 1 / log2(2), the table's entry for 2.
DcgWeights == [i \in 1..Len(InvLog2Table) |-> IF i = 1 THEN InvLog2Table[2] ELSE InvLog2Table[i]]

IsDescending(r) == \A i, j \in DOMAIN r : i < j => r[i] >= r[j]
SameGains(r, t) ==
    Len(r) = Len(t) /\ \A g \in Range(r) \cup Range(t) : Count(r, g) = Count(t, g)

\* C9 as stated: the DCG is the sum over positions i = 1..k of
\* gains[i] / log2(i + 1).
C9_DcgDiscountLog2OfIPlus1 ==
    IsOp("calculate_dcg_at_k") =>
        result.value = WeightedGain(args.r, args.k, InvLog2Table, 1)

\* C9 amended: the DCG is gains[1] + the sum over positions i = 2..k of
\* gains[i] / log2(i), so positions 1 and 2 are both divided by 1 and
\* position 3 by log2(3); the NDCG is that value over the same sum for the
\* gains sorted in descending order (0 when that sum is 0).
C9_DcgDiscountLog2OfI ==
    /\ IsOp("calculate_dcg_at_k") =>
          result.value = WeightedGain(args.r, args.k, DcgWeights, 0)
    /\ IsOp("calculate_ndcg_at_k") =>
          \E ideal \in [DOMAIN args.r -> Range(args.r)] :
              /\ IsDescending(ideal)
              /\ SameGains(ideal, args.r)
              /\ IF WeightedGain(ideal, args.k, DcgWeights, 0) = 0
                 THEN FracEq(result.value, <<0, 1>>)
                 ELSE result.value = <<WeightedGain(args.r, args.k, DcgWeights, 0),
                                       WeightedGain(ideal, args.k, DcgWeights, 0)>>

\* C9 witness: a DCG over three positions with positive gains at positions 2
\* and 3.
C9_Witness ==
    /\ IsOp("calculate_dcg_at_k")
    /\ args.k >= 3
    /\ Len(args.r) >= 3
    /\ args.r[2] > 0
    /\ args.r[3] > 0
    /\ result.value > 0

====
